---- MODULE Spec2Model ----
(***************************************************************************)
(* Substack content synchronisation: the standalone sync script            *)
(* (scripts/sync-substack.ts) and the hosted sync function                 *)
(* (supabase/functions/sync-substack) run against the public.articles      *)
(* table.  Texts are sequences of one-character strings.                   *)
(***************************************************************************)
EXTENDS Integers, Sequences, FiniteSets, TLC

(* ------------------------------ bounds --------------------------------- *)
\* runs started, and <item> blocks fetched over all runs
MaxRuns == 2
MaxBlocks == 2
MaxTokens == 3
\* how far the length of a description lies from the summary limit
MaxSpread == 8

(* ------------------------- program constants --------------------------- *)
MinSubstantial == 100
SummaryLimit == 500

(* ------------------------------- texts --------------------------------- *)
Pad(c, n) == [i \in 1..n |-> c]

Drop(s, n) == SubSeq(s, n + 1, Len(s))

\* positions of s where a /<[^>]*>/ match can start: a "<" followed,
\* somewhere, by a ">"
TagStarts(s) ==
    {i \in 1..Len(s) : s[i] = "<" /\ \E j \in (i + 1)..Len(s) : s[j] = ">"}

MinOf(S) == CHOOSE i \in S : \A j \in S : i <= j

\* the first ">" after position i
TagEnd(s, i) ==
    CHOOSE j \in (i + 1)..Len(s) :
        s[j] = ">" /\ \A k \in (i + 1)..(j - 1) : s[k] # ">"

\* In the operators below {e(v) : v \in {x}} names the value of x once, as
\* a const declaration does.

\* html.replace(/<[^>]*>/g, ''): left to right, every span from a "<" to
\* the next ">" is removed
RECURSIVE StripTags(_)
StripTags(s) ==
    IF TagStarts(s) = {} THEN s
    ELSE CHOOSE r \in {SubSeq(s, 1, i - 1) \o StripTags(rest) :
                          i \in {MinOf(TagStarts(s))},
                          rest \in {Drop(s, TagEnd(s, MinOf(TagStarts(s))))}} : TRUE

Occurrences(s, pat) ==
    {i \in 1..(Len(s) - Len(pat) + 1) :
        s[i] = pat[1] /\ SubSeq(s, i, i + Len(pat) - 1) = pat}

\* s.replace(/pat/g, rep) for a literal pattern: left to right, matches do
\* not overlap
RECURSIVE ReplaceAll(_, _, _)
ReplaceAll(s, pat, rep) ==
    IF Occurrences(s, pat) = {} THEN s
    ELSE CHOOSE r \in {SubSeq(s, 1, i - 1) \o rep \o ReplaceAll(rest, pat, rep) :
                          i \in {MinOf(Occurrences(s, pat))},
                          rest \in {Drop(s, MinOf(Occurrences(s, pat)) + Len(pat) - 1)}} :
             TRUE

\* String.prototype.trim
Trim(s) ==
    CHOOSE r \in {IF solid = {} THEN <<>>
                  ELSE SubSeq(s, MinOf(solid), CHOOSE i \in solid : \A j \in solid : j <= i) :
                  solid \in {{i \in 1..Len(s) : s[i] # " "}}} : TRUE

EntQuot == <<"&", "q", "u", "o", "t", ";">>
EntAmp  == <<"&", "a", "m", "p", ";">>
EntLt   == <<"&", "l", "t", ";">>
EntGt   == <<"&", "g", "t", ";">>
EntApos == <<"&", "#", "3", "9", ";">>
EntNbsp == <<"&", "n", "b", "s", "p", ";">>

\* the chain of .replace calls of the script's sanitizer, in its order
EntitiesScript ==
    << <<EntQuot, <<"\"">> >>, <<EntAmp, <<"&">> >>, <<EntLt, <<"<">> >>,
       <<EntGt, <<">">> >>, <<EntApos, <<"'">> >>, <<EntNbsp, <<" ">> >> >>

\* the chain of the hosted function's sanitizer: no non-breaking space
EntitiesHosted == SubSeq(EntitiesScript, 1, 5)

\* the replace calls from the k-th on, each applied to the result of the
\* one before
RECURSIVE DecodeFrom(_, _, _)
DecodeFrom(s, ents, k) ==
    IF k > Len(ents) THEN s
    ELSE CHOOSE r \in {DecodeFrom(t, ents, k + 1) :
                          t \in {ReplaceAll(s, ents[k][1], ents[k][2])}} : TRUE

\* variant: tags stripped and the ends trimmed, no entity decoded
cleanHTMLTagsUndecoded(html) ==
    CHOOSE r \in {Trim(u) : u \in {StripTags(h) : h \in {html}}} : TRUE

\* the standalone script's sanitizer
cleanHTMLTags(html) ==
    CHOOSE r \in {Trim(t) : t \in {DecodeFrom(u, EntitiesScript, 1) :
                                      u \in {StripTags(h) : h \in {html}}}} : TRUE

\* the hosted function's sanitizer
cleanHTMLTagsHosted(html) ==
    CHOOSE r \in {Trim(t) : t \in {DecodeFrom(u, EntitiesHosted, 1) :
                                      u \in {StripTags(h) : h \in {html}}}} : TRUE

Clean(impl, html) ==
    IF impl = "script" THEN cleanHTMLTags(html) ELSE cleanHTMLTagsHosted(html)

(* --------------------------- the feed ---------------------------------- *)
\* Texts used by the feeds and the pages
TxtAB   == <<"a", "b">>
TxtEmptyMarkup == <<"<", "b", ">", "<", "/", "b", ">">>
TxtABCMarkup == <<"<", "p", ">", "a", "b", "c", "<", "/", "p", ">">>
TxtLongD == Pad("d", MinSubstantial + 1)
TxtLongEMarkup == <<"<", "p", ">">> \o Pad("e", MinSubstantial + 1)
TxtLongX == Pad("x", MinSubstantial + 1)
TxtPQMarkup == <<"<", "i", ">", "p", "q", "<", "/", "i", ">">>

\* An <item> block of the feed, as the inner texts extractXMLContent finds
\* for title, link, pubDate, description, content:encoded and guid ("" or
\* <<>> when the tag is absent).
Block(t, l, p, d, e, g) ==
    [title |-> t, link |-> l, pubDate |-> p, description |-> d,
     encoded |-> e, guid |-> g]

Blocks ==
    { Block(<<"A">>, "u1", "d1", TxtAB, TxtEmptyMarkup, "g1"),
      Block(<<"A">>, "u1", "d1", TxtAB, TxtABCMarkup, "g1"),
      Block(<<"B">>, "u2", "d2", TxtLongD, TxtLongEMarkup, ""),
      Block(<<"A">>, "u1", "bad", TxtAB, <<>>, "g1"),
      Block(<<>>, "u2", "d2", TxtAB, <<>>, ""),
      Block(<<"C">>, "", "d1", TxtAB, <<>>, "g3"),
      Block(<<"B">>, "u2", "", TxtAB, <<>>, "") }

RECURSIVE SeqsUpTo(_, _)
SeqsUpTo(S, n) ==
    IF n = 0 THEN {<<>>}
    ELSE LET shorter == SeqsUpTo(S, n - 1)
         IN  shorter \cup {Append(q, x) : q \in {r \in shorter : Len(r) = n - 1}, x \in S}

Feeds == SeqsUpTo(Blocks, MaxBlocks)

\* The outcome of fetch(rssUrl): a transport failure, a non-success status,
\* or the feed text.
FeedResponses ==
    {[kind |-> "throw", blocks |-> <<>>], [kind |-> "notok", blocks |-> <<>>]}
    \cup {[kind |-> "ok", blocks |-> f] : f \in Feeds}

\* variants: a filter that forgets one of the three fields
WellformedNoDate(b) == b.title # <<>> /\ b.link # ""
WellformedNoLink(b) == b.title # <<>> /\ b.pubDate # ""

\* if (title && link && pubDate)
Wellformed(b) == b.title # <<>> /\ b.link # "" /\ b.pubDate # ""

\* One RSSItem; pos remembers the block it came from.
Item(impl, b, pos) ==
    [title |-> Clean(impl, b.title), link |-> b.link, pubDate |-> b.pubDate,
     description |-> Clean(impl, b.description), encoded |-> b.encoded,
     guid |-> IF b.guid # "" THEN b.guid ELSE b.link, pos |-> pos]

\* variant: every new item is put in front of the ones found before
RECURSIVE ParseFromNewestFirst(_, _, _)
ParseFromNewestFirst(impl, blocks, pos) ==
    IF pos > Len(blocks) THEN <<>>
    ELSE ParseFromNewestFirst(impl, blocks, pos + 1)
         \o (IF Wellformed(blocks[pos])
             THEN <<Item(impl, blocks[pos], pos)>> ELSE <<>>)

\* the while loop of parseRSSFeed over the <item> blocks
RECURSIVE ParseFrom(_, _, _)
ParseFrom(impl, blocks, pos) ==
    IF pos > Len(blocks) THEN <<>>
    ELSE (IF Wellformed(blocks[pos])
          THEN <<Item(impl, blocks[pos], pos)>> ELSE <<>>)
         \o ParseFrom(impl, blocks, pos + 1)

parseRSSFeed(impl, blocks) == ParseFrom(impl, blocks, 1)

(* --------------------------- the post page ------------------------------ *)
NoMatch == [matched |-> FALSE, inner |-> <<>>]
Match(t) == [matched |-> TRUE, inner |-> t]

\* The outcome of fetch(postUrl); for a success, what each of the four
\* content selectors captures in the html (markup div, post-content div,
\* article tag, body div).
PageResponses ==
    { [kind |-> "throw", sel |-> <<NoMatch, NoMatch, NoMatch, NoMatch>>],
      [kind |-> "notok", sel |-> <<NoMatch, NoMatch, NoMatch, NoMatch>>],
      [kind |-> "ok", sel |-> <<NoMatch, NoMatch, NoMatch, NoMatch>>],
      [kind |-> "ok", sel |-> <<Match(TxtPQMarkup), NoMatch, Match(TxtLongX), NoMatch>>] }

RECURSIVE FirstSubstantial(_, _)
FirstSubstantial(sel, k) ==
    IF k > Len(sel) THEN <<>>
    ELSE IF sel[k].matched /\ Len(cleanHTMLTags(sel[k].inner)) > MinSubstantial
         THEN cleanHTMLTags(sel[k].inner)
         ELSE FirstSubstantial(sel, k + 1)

\* what a call of the page fetcher gives its caller: a text, or an
\* exception
Returned(t) == [threw |-> FALSE, text |-> t]
Thrown == [threw |-> TRUE, text |-> <<>>]

\* variant: the fetcher without its try/catch
getFullPostContentNoCatch(resp) ==
    IF resp.kind = "throw" THEN Thrown
    ELSE IF resp.kind = "notok" THEN Returned(<<>>)
    ELSE Returned(FirstSubstantial(resp.sel, 1))

\* the standalone script's page fetcher; its catch turns a failed fetch
\* into ''
getFullPostContent(resp) ==
    IF resp.kind = "throw" THEN Returned(<<>>)
    ELSE IF resp.kind = "notok" THEN Returned(<<>>)
    ELSE Returned(FirstSubstantial(resp.sel, 1))

\* the hosted function's page fetcher: markup div, then article tag, no
\* length threshold
getFullPostContentHosted(resp) ==
    IF resp.kind = "throw" THEN Returned(<<>>)
    ELSE IF resp.kind = "notok" THEN Returned(<<>>)
    ELSE IF resp.sel[1].matched THEN Returned(cleanHTMLTagsHosted(resp.sel[1].inner))
    ELSE IF resp.sel[3].matched THEN Returned(cleanHTMLTagsHosted(resp.sel[3].inner))
    ELSE Returned(<<>>)

FetchBody(impl, resp) ==
    IF impl = "script" THEN getFullPostContent(resp) ELSE getFullPostContentHosted(resp)

(* ----------------------------- dates ------------------------------------ *)
\* new Date(pubDate).toISOString() throws a RangeError on an unparseable date
DateParses(p) == p \in {"d1", "d2"}
ToISO(p) == <<"iso", p>>


Absent == [found |-> FALSE]

(* ------------------------- the articles table --------------------------- *)
Rows(st, url) == {r \in st : r.url = url}

\* variant: the table without the unique index on url
UniqueViolationNoIndex(st, url, id) == FALSE

\* url TEXT NOT NULL UNIQUE
UniqueViolation(st, url, id) == \E r \in st : r.url = url /\ r.id # id

\* id UUID DEFAULT gen_random_uuid(): a value no row has
NewId(st) == Cardinality(st) + 1

\* .from('articles').insert([postData]); dbFails is a failure of the call
DbInsert(st, data, dbFails) ==
    IF dbFails \/ UniqueViolation(st, data.url, 0)
    THEN [error |-> TRUE, store |-> st]
    ELSE [error |-> FALSE,
          store |-> st \cup {[id |-> NewId(st), title |-> data.title,
                              content |-> data.content, url |-> data.url,
                              published_at |-> data.published_at,
                              summary |-> data.summary,
                              substack_id |-> data.substack_id,
                              updated_at |-> data.updated_at]}]

\* variant: an update that fails takes the row with it
DbUpdateLosingRow(st, id, data, dbFails) ==
    IF dbFails \/ UniqueViolation(st, data.url, id)
    THEN [error |-> TRUE, store |-> {r \in st : r.id # id}]
    ELSE [error |-> FALSE,
          store |-> {IF r.id = id
                     THEN [id |-> r.id, title |-> data.title,
                           content |-> data.content, url |-> data.url,
                           published_at |-> data.published_at,
                           summary |-> data.summary,
                           substack_id |-> data.substack_id,
                           updated_at |-> data.updated_at]
                     ELSE r : r \in st}]

\* .from('articles').update(postData).eq('id', id)
DbUpdate(st, id, data, dbFails) ==
    IF dbFails \/ UniqueViolation(st, data.url, id)
    THEN [error |-> TRUE, store |-> st]
    ELSE [error |-> FALSE,
          store |-> {IF r.id = id
                     THEN [id |-> r.id, title |-> data.title,
                           content |-> data.content, url |-> data.url,
                           published_at |-> data.published_at,
                           summary |-> data.summary,
                           substack_id |-> data.substack_id,
                           updated_at |-> data.updated_at]
                     ELSE r : r \in st}]

\* .select(cols).eq('url', link).single(): data is the row when exactly one
\* row matches and the call succeeds, null otherwise.  The script selects
\* id, url, content; the hosted function selects id, url only.
DbSingle(st, i, link, lookupFails) ==
    IF lookupFails \/ Cardinality(Rows(st, link)) # 1
    THEN Absent
    ELSE LET r == CHOOSE x \in Rows(st, link) : TRUE IN
         [found |-> TRUE, id |-> r.id, url |-> r.url,
          hasContent |-> (i = "script"),
          content |-> IF i = "script" THEN r.content ELSE <<>>]

(* ------------------------ content selection ----------------------------- *)
\* part_000:155-170
ScriptContent(item, fs, body) ==
    LET c1 == item.description
        c2 == IF fs /\ body # <<>> /\ Len(body) > Len(c1) THEN body ELSE c1
    IN  IF item.encoded = <<>> THEN c2
        ELSE CHOOSE r \in {IF Len(enc) > Len(c2) THEN enc ELSE c2 :
                              enc \in {cleanHTMLTags(item.encoded)}} : TRUE

\* !existing || !existing.content
NothingStored(ex) == ~ex.found \/ ~ex.hasContent \/ ex.content = <<>>

\* variant: the flag is not looked at
HostedFetchesWhateverFlag(fs, ex) == NothingStored(ex)

\* if (fullSync && (!existing || !existing.content))
HostedFetches(fs, ex) == fs /\ NothingStored(ex)

\* part_003:207-218
HostedContent(item, fs, ex, body) ==
    LET c1 == item.description
        c2 == IF HostedFetches(fs, ex) /\ body # <<>> THEN body ELSE c1
    IN  IF item.encoded # <<>> THEN cleanHTMLTagsHosted(item.encoded) ELSE c2

FullContent(i, item, fs, ex, body) ==
    IF i = "script" THEN ScriptContent(item, fs, body)
    ELSE HostedContent(item, fs, ex, body)

Min(a, b) == IF a < b THEN a ELSE b

\* variant: the marker is added from the limit on
SummarizeAtLimit(d) ==
    SubSeq(d, 1, Min(SummaryLimit, Len(d)))
    \o (IF Len(d) >= SummaryLimit THEN <<".", ".", ".">> ELSE <<>>)

\* item.description.substring(0, 500) + (item.description.length > 500 ? '...' : '')
Summarize(d) ==
    SubSeq(d, 1, Min(SummaryLimit, Len(d)))
    \o (IF Len(d) > SummaryLimit THEN <<".", ".", ".">> ELSE <<>>)

\* variant: the url of the payload is the guid of the item
PostDataKeyedByGuid(i, item, content, stamp) ==
    [title |-> item.title, content |-> content, url |-> item.guid,
     published_at |-> ToISO(item.pubDate), summary |-> Summarize(item.description),
     substack_id |-> IF i = "script" /\ item.guid = "" THEN item.link ELSE item.guid,
     updated_at |-> stamp]

\* const postData = { ... }
PostData(i, item, content, stamp) ==
    [title |-> item.title, content |-> content, url |-> item.link,
     published_at |-> ToISO(item.pubDate), summary |-> Summarize(item.description),
     substack_id |-> IF i = "script" /\ item.guid = "" THEN item.link ELSE item.guid,
     updated_at |-> stamp]

\* const shouldUpdate = fullSync || existing.content !== fullContent;
\* the hosted function updates every existing record
ShouldUpdate(i, fs, ex, content) == i = "hosted" \/ fs \/ ex.content # content


\* what one item's storage step does: the write issued ("none" for a
\* skip), whether it returned an error, and the table afterwards
Reconcile(i, fs, st, ex, data, dbFails) ==
    IF ex.found
    THEN IF ShouldUpdate(i, fs, ex, data.content)
         THEN LET res == DbUpdate(st, ex.id, data, dbFails)
              IN  [op |-> "update", error |-> res.error, store |-> res.store]
         ELSE [op |-> "none", error |-> FALSE, store |-> st]
    ELSE LET res == DbInsert(st, data, dbFails)
         IN  [op |-> "insert", error |-> res.error, store |-> res.store]

Outcome(res) ==
    IF res.error THEN "errored"
    ELSE IF res.op = "update" THEN "updated"
    ELSE IF res.op = "insert" THEN "inserted"
    ELSE "skipped"

(* ----------------------------- state ------------------------------------ *)
VARIABLES
    store,        \* public.articles: a set of rows
    runs,         \* runs started so far
    seen,         \* <item> blocks fetched so far, over all runs
    now,          \* the clock, advanced by every new Date() of a postData
    pc,           \* where the current run stands
    impl,         \* "script" or "hosted"
    fullSync,
    feed,         \* the <item> blocks of the fetched feed
    rssItems,     \* what parseRSSFeed returned
    index,        \* 1-based position of the current item in rssItems
    existing,     \* data of the lookup by url
    fetched,      \* fetchedContent of the current item
    newCount, updatedCount, errorCount,
    summary,      \* what the run reports when it ends
    \* history variables, read by no action
    cur,          \* what was issued for the item in hand, and its outcome
    tally,        \* per item of this run: lookups issued, outcomes reached
    failures,     \* items of this run whose write failed or that threw
    last,         \* the pass before the one in hand, over all runs
    env,          \* whether the run had its key, and how the feed fetch went
    store0,       \* the table when the run started
    \* a call of one of the text functions on its own
    fn,           \* the function called, "none" while the sync is modelled
    arg,          \* its arguments
    val,          \* what it returned, call after call
    \* the chat interface (components/ChatInterface.tsx)
    mounted,      \* the component is mounted and its effects have run
    messages,     \* useState<Message[]>([]): the displayed transcript
    input,        \* useState("")
    isLoading,    \* useState(false)
    chatRows,     \* the user's rows of chat_messages, in created_at order
    load,         \* loadChatHistory: where it stands, and its data
    sends,        \* the calls of handleSendMessage, in the order made
    nextId        \* ids given to messages so far

prog == <<store, runs, seen, now, pc, impl, fullSync, feed, rssItems, index,
          existing, fetched, newCount, updatedCount, errorCount, summary>>
hist == <<cur, tally, failures, last, env, store0>>
calls == <<fn, arg, val>>
chat == <<mounted, messages, input, isLoading, chatRows, load, sends, nextId>>
vars == <<prog, hist, calls, chat>>

NoSummary == [kind |-> "none"]
NoItem == [title |-> <<>>, link |-> "", pubDate |-> "", description |-> <<>>,
           encoded |-> <<>>, guid |-> "", pos |-> 0]
Fresh == [item |-> NoItem, lookup |-> "none", page |-> "none", write |-> "none",
          outcome |-> "none", cause |-> "none", content |-> <<>>]
NoPass == [impl |-> "none", fullSync |-> FALSE, item |-> NoItem, outcome |-> "none"]
NoEnv == [hasKey |-> TRUE, feedKind |-> "none"]

\* no run has started and the table is empty
\* the chat interface before it is mounted: the initial values of its
\* useState calls, nothing loaded, nothing sent
NoLoad == [pc |-> "none", data |-> <<>>]

Unmounted ==
    /\ mounted = FALSE
    /\ messages = <<>> /\ input = <<>> /\ isLoading = FALSE
    /\ chatRows = <<>> /\ load = NoLoad /\ sends = <<>> /\ nextId = 0

AtRest ==
    /\ Unmounted
    /\ store = {}
    /\ runs = 0 /\ seen = 0 /\ now = 0
    /\ pc = "idle"
    /\ impl = "script"
    /\ fullSync = FALSE
    /\ feed = <<>> /\ rssItems = <<>> /\ index = 0
    /\ existing = Absent
    /\ fetched = <<>>
    /\ newCount = 0 /\ updatedCount = 0 /\ errorCount = 0
    /\ summary = NoSummary
    /\ cur = Fresh /\ tally = <<>> /\ failures = 0
    /\ last = NoPass /\ env = NoEnv /\ store0 = {}

NoArg == [impl |-> "none"]

Init == AtRest /\ fn = "none" /\ arg = NoArg /\ val = <<>>

(* ------------------- invocation and credential check -------------------- *)
\* variant: the run goes on to the feed without its key
StartRunUnchecked(i, fs, hasKey) ==
    /\ pc \in {"idle", "done", "failed"}
    /\ runs < MaxRuns
    /\ runs' = runs + 1
    /\ impl' = i
    /\ fullSync' = fs
    /\ feed' = <<>> /\ rssItems' = <<>> /\ index' = 0
    /\ existing' = Absent /\ fetched' = <<>>
    /\ newCount' = 0 /\ updatedCount' = 0 /\ errorCount' = 0
    /\ summary' = NoSummary
    /\ pc' = "feed"
    /\ cur' = Fresh /\ tally' = <<>> /\ failures' = 0
    /\ env' = [hasKey |-> hasKey, feedKind |-> "none"]
    /\ store0' = store
    /\ UNCHANGED <<store, seen, now, last, calls, chat>>

\* A run starts; a missing SUPABASE_SERVICE_ROLE_KEY ends it at once
\* (process.exit(1) in the script, the 500 response in the hosted function).
StartRun(i, fs, hasKey) ==
    /\ pc \in {"idle", "done", "failed"}
    /\ runs < MaxRuns
    /\ runs' = runs + 1
    /\ impl' = i
    /\ fullSync' = fs
    /\ feed' = <<>> /\ rssItems' = <<>> /\ index' = 0
    /\ existing' = Absent /\ fetched' = <<>>
    /\ newCount' = 0 /\ updatedCount' = 0 /\ errorCount' = 0
    /\ summary' = NoSummary
    /\ pc' = IF hasKey THEN "feed" ELSE "failed"
    /\ cur' = Fresh /\ tally' = <<>> /\ failures' = 0
    /\ env' = [hasKey |-> hasKey, feedKind |-> "none"]
    /\ store0' = store
    /\ UNCHANGED <<store, seen, now, last, calls, chat>>

(* ----------------------------- the feed --------------------------------- *)
\* variant: the status of the response is not looked at
FeedFailedIgnoringStatus(resp) == resp.kind = "throw"

\* const response = await fetch(rssUrl); if (!response.ok) throw
FeedFailed(resp) == resp.kind = "throw" \/ resp.kind = "notok"

EmptySummary(i) == IF i = "hosted" THEN [kind |-> "empty", count |-> 0] ELSE NoSummary

\* await parseRSSFeed(rssUrl) and the empty-feed return
FetchFeed(resp) ==
    /\ pc = "feed"
    /\ seen + Len(resp.blocks) <= MaxBlocks
    /\ seen' = seen + Len(resp.blocks)
    /\ env' = [env EXCEPT !.feedKind = resp.kind]
    /\ IF FeedFailed(resp)
       THEN /\ pc' = "failed"
            /\ UNCHANGED <<feed, rssItems, index, summary, tally>>
       ELSE LET items == parseRSSFeed(impl, resp.blocks) IN
            /\ feed' = resp.blocks
            /\ rssItems' = items
            /\ tally' = [k \in 1..Len(items) |-> [lookups |-> 0, settled |-> 0]]
            /\ IF items = <<>>
               THEN pc' = "done" /\ index' = 0 /\ summary' = EmptySummary(impl)
               ELSE pc' = "lookup" /\ index' = 1 /\ UNCHANGED summary
    /\ UNCHANGED <<store, runs, now, impl, fullSync, existing, fetched,
                   newCount, updatedCount, errorCount, cur, failures, last, store0,
                   calls, chat>>

(* --------------------------- the item loop ------------------------------ *)
\* variant: the loop variable stays on the first item
CurItemStale == rssItems[1]

\* for (const [index, item] of rssItems.entries())
CurItem == rssItems[index]

\* what the run reports: the script prints four counts, the hosted
\* function returns totalProcessed, newPosts and updatedPosts
Report(i, total, n, u, e) ==
    IF i = "script"
    THEN [kind |-> "counts", totalProcessed |-> total, newPosts |-> n,
          updatedPosts |-> u, errored |-> e]
    ELSE [kind |-> "counts", totalProcessed |-> total, newPosts |-> n,
          updatedPosts |-> u]

\* variant: a counted error ends the run
AdvanceAbortOnError(n, u, e) ==
    IF e > 0
    THEN pc' = "failed" /\ index' = index /\ UNCHANGED summary
    ELSE IF index < Len(rssItems)
    THEN pc' = "lookup" /\ index' = index + 1 /\ UNCHANGED summary
    ELSE pc' = "done" /\ index' = index
         /\ summary' = [kind |-> "counts", totalProcessed |-> Len(rssItems),
                         newPosts |-> n, updatedPosts |-> u, errored |-> e]

\* the end of one iteration: the next item, or the end of the run
Advance(n, u, e) ==
    IF index < Len(rssItems)
    THEN pc' = "lookup" /\ index' = index + 1 /\ UNCHANGED summary
    ELSE pc' = "done" /\ index' = index
         /\ summary' = Report(impl, Len(rssItems), n, u, e)

\* variant: the catch of the iteration counts nothing
ErroredUncounted(e) == e

\* one counted error: errorCount++ in the script, a log line in the
\* hosted function
Errored(e) == IF impl = "script" THEN e + 1 ELSE e

\* history: the item in hand reached its outcome
Settle(outcome, write, cause, content) ==
    /\ cur' = [cur EXCEPT !.outcome = outcome, !.write = write, !.cause = cause,
                          !.content = content]
    /\ tally' = [tally EXCEPT ![index].settled = @ + 1]
    /\ failures' = IF outcome = "errored" THEN failures + 1 ELSE failures
    /\ last' = [impl |-> impl, fullSync |-> fullSync,
                item |-> [CurItem EXCEPT !.pos = 0], outcome |-> outcome]

\* await supabase.from('articles').select(...).eq('url', item.link).single()
Lookup(lookupFails) ==
    /\ pc = "lookup"
    /\ \E ex \in {DbSingle(store, impl, CurItem.link, lookupFails)} :
         /\ existing' = ex
         /\ pc' = IF (impl = "script" /\ fullSync)
                     \/ (impl = "hosted" /\ HostedFetches(fullSync, ex))
                  THEN "page" ELSE "write"
         /\ cur' = [Fresh EXCEPT !.item = CurItem,
                                 !.lookup = IF ex.found THEN "found" ELSE "absent"]
    /\ fetched' = <<>>
    /\ tally' = [tally EXCEPT ![index].lookups = @ + 1]
    /\ UNCHANGED <<store, runs, seen, now, impl, fullSync, feed, rssItems, index,
                   newCount, updatedCount, errorCount, summary, failures, last,
                   env, store0, calls, chat>>

\* await getFullPostContent(item.link); an exception would reach the catch
\* of the iteration
PageFetch(resp) ==
    /\ pc = "page"
    /\ \E r \in {FetchBody(impl, resp)} :
         IF r.threw
         THEN /\ errorCount' = Errored(errorCount)
              /\ Settle("errored", "none", "fetch", <<>>)
              /\ Advance(newCount, updatedCount, Errored(errorCount))
              /\ UNCHANGED fetched
         ELSE /\ fetched' = r.text
              /\ cur' = [cur EXCEPT !.page = IF resp.kind # "ok" THEN "failed"
                                             ELSE IF r.text = <<>> THEN "empty"
                                             ELSE "text"]
              /\ pc' = "write"
              /\ UNCHANGED <<errorCount, index, summary, tally, failures, last>>
    /\ UNCHANGED <<store, runs, seen, now, impl, fullSync, feed, rssItems,
                   existing, newCount, updatedCount, env, store0, calls, chat>>

\* the delay follows the write of every item but the last of a full sync
\* of the script
DelayDue == impl = "script" /\ fullSync /\ index < Len(rssItems)

\* postData, then update, insert or skip, and the counters
Write(dbFails) ==
    /\ pc = "write"
    /\ now' = now + 1
    /\ \E content \in {FullContent(impl, CurItem, fullSync, existing, fetched)} :
         IF ~DateParses(CurItem.pubDate)
         THEN \* toISOString throws: the catch of the iteration
              /\ errorCount' = Errored(errorCount)
              /\ Settle("errored", "none", "date", content)
              /\ Advance(newCount, updatedCount, Errored(errorCount))
              /\ UNCHANGED <<store, newCount, updatedCount>>
         ELSE \E res \in {Reconcile(impl, fullSync, store, existing,
                                    PostData(impl, CurItem, content, now + 1), dbFails)} :
              LET n == IF Outcome(res) = "inserted" THEN newCount + 1 ELSE newCount
                  u == IF Outcome(res) = "updated" THEN updatedCount + 1 ELSE updatedCount
                  e == IF res.error THEN Errored(errorCount) ELSE errorCount
              IN  /\ store' = res.store
                  /\ newCount' = n
                  /\ updatedCount' = u
                  /\ errorCount' = e
                  /\ Settle(Outcome(res), res.op,
                            IF res.error THEN "storage" ELSE "none", content)
                  /\ IF DelayDue
                     THEN pc' = "delay" /\ UNCHANGED <<index, summary>>
                     ELSE Advance(n, u, e)
    /\ UNCHANGED <<runs, seen, impl, fullSync, feed, rssItems, existing, fetched,
                   env, store0, calls, chat>>

\* await new Promise(resolve => setTimeout(resolve, 1000))
Delay ==
    /\ pc = "delay"
    /\ Advance(newCount, updatedCount, errorCount)
    /\ UNCHANGED <<store, runs, seen, now, impl, fullSync, feed, rssItems, existing,
                   fetched, newCount, updatedCount, errorCount, hist, calls, chat>>

Impls == {"script", "hosted"}

\* one step of the item loop, at the position of the run
LoopStep ==
    \/ pc = "lookup" /\ \E lookupFails \in BOOLEAN : Lookup(lookupFails)
    \/ pc = "page" /\ \E resp \in PageResponses : PageFetch(resp)
    \/ pc = "write" /\ \E dbFails \in BOOLEAN : Write(dbFails)
    \/ pc = "delay" /\ Delay

Next ==
    \/ \E i \in Impls, fs \in BOOLEAN, hasKey \in BOOLEAN : StartRun(i, fs, hasKey)
    \/ \E resp \in FeedResponses : FetchFeed(resp)
    \/ LoopStep

Spec == Init /\ [][Next]_vars

\* every call awaited in the item loop returns: a run that is in its loop
\* takes its next step
FairSpec == Spec /\ WF_vars(LoopStep)

(* ======================= properties of the sync ========================= *)
LacksRequired(b) == b.title = <<>> \/ b.link = "" \/ b.pubDate = ""

ValidPositions == {p \in DOMAIN feed : ~LacksRequired(feed[p])}

SettledItems == {k \in DOMAIN tally : tally[k].settled > 0}

InLoop == pc \in {"lookup", "page", "write", "delay"}

\* the row stored for a url (there is one)
StoredFor(url) == CHOOSE r \in store : r.url = url

SamePass == last.impl = impl /\ last.item = [CurItem EXCEPT !.pos = 0]

\* C1: the article table never holds two rows with the same url, whatever
\* the runs, the feeds and the lookups that fail did.
C1_UniqueUrl == \A r1, r2 \in store : r1.url = r2.url => r1 = r2

\* C1, its case: after a lookup that returned nothing, an insert was issued
\* for a url the table already holds, and it was rejected.
C1_Witness ==
    /\ cur.lookup = "absent" /\ cur.write = "insert" /\ cur.outcome = "errored"
    /\ \E r \in store : r.url = cur.item.link

\* C2 as claimed: the same item reconciled twice in a row by the same
\* pipeline with fullSync false, inserted by the first pass and found by the
\* lookup of the second, is skipped by the second pass, which issues no write.
C2_InsertedThenSkipped ==
    [][(pc = "write" /\ ~fullSync /\ ~last.fullSync /\ last.outcome = "inserted"
        /\ SamePass /\ cur.lookup = "found")
       => (cur'.outcome = "skipped" /\ cur'.write = "none" /\ store' = store)]_vars

\* C2 for the standalone script alone.
C2_ScriptInsertedThenSkipped ==
    [][(pc = "write" /\ impl = "script" /\ ~fullSync /\ ~last.fullSync
        /\ last.outcome = "inserted" /\ SamePass /\ cur.lookup = "found")
       => (cur'.outcome = "skipped" /\ cur'.write = "none" /\ store' = store)]_vars

\* C3 as claimed, for an item whose date parses and whose stored row the
\* lookup returned: an update is issued exactly when fullSync is set or the
\* candidate differs from the stored content, and a skip changes no row.
C3_UpdateIffChanged ==
    [][(pc = "write" /\ cur.lookup = "found" /\ DateParses(CurItem.pubDate))
       => LET same == StoredFor(CurItem.link).content = cur'.content IN
          /\ (cur'.write = "update") <=> (fullSync \/ ~same)
          /\ (~fullSync /\ same) => (cur'.outcome = "skipped" /\ store' = store)]_vars

\* C3 for the standalone script alone.
C3_ScriptUpdateIffChanged ==
    [][(pc = "write" /\ impl = "script" /\ cur.lookup = "found"
        /\ DateParses(CurItem.pubDate))
       => LET same == StoredFor(CurItem.link).content = cur'.content IN
          /\ (cur'.write = "update") <=> (fullSync \/ ~same)
          /\ (~fullSync /\ same) => (cur'.outcome = "skipped" /\ store' = store)]_vars

Max(a, b) == IF a > b THEN a ELSE b

\* the content the length rule of C4 picks among description d, fetched
\* body b and sanitized encoded content e
PickedByLength(c, d, b, e) ==
    LET m == Max(Len(d), Max(Len(b), Len(e))) IN
    /\ Len(c) = m
    /\ Len(c) >= Len(d)
    /\ Len(d) = m => c = d
    /\ (Len(d) < m /\ Len(b) = m) => c = b
    /\ (Len(d) < m /\ Len(b) < m) => c = e

\* C4 as claimed: the content of a reconciled item is the longest of the
\* description, the fetched body (full sync only) and the sanitized encoded
\* content, the earlier source winning on equal lengths.
C4_LongestSource ==
    cur.outcome # "none"
    => PickedByLength(cur.content, cur.item.description,
                      IF fullSync THEN fetched ELSE <<>>,
                      Clean(impl, cur.item.encoded))

\* C4 for the standalone script alone.
C4_ScriptLongestSource == impl = "script" => C4_LongestSource

\* C5: every item of the feed is looked up once and reaches one outcome, in
\* order, whatever failed before it; the loop never ends in the failed
\* state; and a run in its loop reaches its end with the counts.
C5_EveryItemOnce ==
    /\ [](\A k \in DOMAIN tally :
            /\ tally[k].lookups = IF k < index \/ (k = index /\ pc # "lookup")
                                  THEN 1 ELSE 0
            /\ tally[k].settled = IF k < index \/ (k = index /\ pc \in {"delay", "done"})
                                  THEN 1 ELSE 0)
    /\ []((pc = "done" /\ rssItems # <<>>)
          => /\ summary.kind = "counts"
             /\ \A k \in DOMAIN rssItems : tally[k].lookups = 1 /\ tally[k].settled = 1)
    /\ [][InLoop => pc' # "failed"]_vars
    /\ (InLoop ~> pc = "done")

\* C5, its case: the first of two items failed and the second was written.
C5_Witness ==
    /\ pc = "done" /\ Len(rssItems) = 2 /\ failures = 1
    /\ cur.outcome = "inserted" /\ cur.item = rssItems[2]

\* C6 as claimed: the counts a run ends with carry an errored count, equal
\* to the number of items whose write failed or that threw, none of them
\* also counted as new or updated.
C6_ErroredCount ==
    (pc = "done" /\ summary.kind = "counts")
    => /\ "errored" \in DOMAIN summary
       /\ summary.errored = failures
       /\ summary.newPosts + summary.updatedPosts + failures <= summary.totalProcessed

\* C6 for the standalone script alone.
C6_ScriptErroredCount == impl = "script" => C6_ErroredCount

\* C7: the items of a run are the blocks with title, link and pubDate,
\* totalProcessed is their number, and the counters together never exceed
\* the number of items that reached an outcome.
C7_Counts ==
    /\ Len(rssItems) = Cardinality(ValidPositions)
    /\ summary.kind = "counts" => summary.totalProcessed = Cardinality(ValidPositions)
    /\ newCount + updatedCount + errorCount <= Cardinality(SettledItems)
    /\ Cardinality(SettledItems) <= Len(rssItems)

\* C7, its case: a feed of one valid and one malformed block, run to the end.
C7_Witness ==
    /\ pc = "done" /\ summary.kind = "counts" /\ Len(feed) = 2
    /\ summary.totalProcessed = 1 /\ summary.newPosts = 1

\* what C8 says of the content: the description, or the encoded content
\* when that is longer
FallbackContent(item) ==
    LET e == cleanHTMLTags(item.encoded)
    IN  IF Len(e) > Len(item.description) THEN e ELSE item.description

FetchFailedInScript ==
    impl = "script" /\ fullSync /\ cur.page = "failed" /\ cur.outcome # "none"

\* C8 as claimed (standalone script): the page fetcher never raises, and an
\* item of a full sync whose page fetch failed gets the fallback content and
\* is inserted or updated.
C8_FetchFailureStillWritten ==
    /\ cur.cause # "fetch"
    /\ FetchFailedInScript
       => /\ fetched = <<>>
          /\ cur.content = FallbackContent(cur.item)
          /\ cur.outcome \in {"inserted", "updated"}

\* C8 amended: ... and is inserted or updated unless its own write returns
\* an error or its date does not parse; the failed fetch is never what
\* counts it as errored, and it is never skipped.
C8_FetchFailureNeverCounted ==
    /\ cur.cause # "fetch"
    /\ FetchFailedInScript
       => /\ fetched = <<>>
          /\ cur.content = FallbackContent(cur.item)
          /\ \/ cur.outcome \in {"inserted", "updated"}
             \/ cur.outcome = "errored" /\ cur.cause \in {"storage", "date"}

\* C8, its case: the page fetch of a full sync failed and the item was
\* inserted with its description.
C8_Witness ==
    /\ FetchFailedInScript /\ cur.outcome = "inserted"
    /\ cur.content = cur.item.description

\* C9: a run is in the failed state exactly when it had no key or its feed
\* fetch failed, and then it issued no storage call and left the table as
\* it found it.
C9_FailureIffFatal ==
    /\ (pc = "failed")
       <=> (runs > 0 /\ (~env.hasKey \/ env.feedKind \in {"throw", "notok"}))
    /\ pc = "failed" => (store = store0 /\ tally = <<>> /\ cur = Fresh)

\* C9, its case: the feed answered with a non-success status while the
\* table held rows.
C9_Witness ==
    pc = "failed" /\ env.hasKey /\ env.feedKind = "notok" /\ store # {}

\* C10: a block lacking title, link or pubDate is no item of the run, is
\* never the item a storage call is issued for, is not counted, and neither
\* fails the run nor adds an error.
C10_MalformedDiscarded ==
    /\ \A p \in DOMAIN feed :
         LacksRequired(feed[p])
         => /\ \A k \in DOMAIN rssItems : rssItems[k].pos # p
            /\ cur.item.pos # p
    /\ summary.kind = "counts" => summary.totalProcessed <= Cardinality(ValidPositions)
    /\ failures <= Cardinality(ValidPositions)
    /\ feed # <<>> => pc # "failed"

\* C10, its case: a feed with a malformed block and a valid one, the valid
\* one inserted.
C10_Witness ==
    /\ pc = "done" /\ \E p \in DOMAIN feed : LacksRequired(feed[p])
    /\ Len(rssItems) = 1 /\ cur.outcome = "inserted"

\* C11: the parser returns one item for each block of the feed that has a
\* title, a link and a pubDate, none for the other blocks, and the items
\* are in the order of their blocks.
C11_OneItemPerValidBlock ==
    /\ \A p \in ValidPositions :
         Cardinality({k \in DOMAIN rssItems : rssItems[k].pos = p}) = 1
    /\ \A k \in DOMAIN rssItems :
         /\ rssItems[k].pos \in ValidPositions
         /\ rssItems[k].link = feed[rssItems[k].pos].link
         /\ rssItems[k].pubDate = feed[rssItems[k].pos].pubDate
    /\ \A j, k \in DOMAIN rssItems : j < k => rssItems[j].pos < rssItems[k].pos

\* C11, its case: a feed of two valid blocks with different links, parsed
\* into two items.
C11_Witness ==
    /\ Len(feed) = 2 /\ Len(rssItems) = 2
    /\ rssItems[1].link # rssItems[2].link

\* the loop goes on from one item to the next
NextItem == InLoop /\ pc' = "lookup" /\ index' = index + 1

\* C12 as claimed: in a full sync the loop goes on to the next item only
\* out of the delay step, and the delay step is taken only in a full sync
\* and never after the final item.
C12_DelayBetweenItems ==
    /\ [][(fullSync /\ NextItem) => pc = "delay"]_vars
    /\ [](pc = "delay" => (fullSync /\ index < Len(rssItems)))

\* C12 for the standalone script alone, but for an item that threw: its
\* catch is entered before the delay.
C12_ScriptDelayUnlessThrown ==
    /\ [][(impl = "script" /\ fullSync /\ NextItem)
          => (pc = "delay" \/ cur'.cause = "date")]_vars
    /\ [](pc = "delay" => (fullSync /\ index < Len(rssItems)))

\* a run that ended on a feed without a valid item
EndedOnEmptyFeed == pc = "done" /\ rssItems = <<>>

\* the run issued no lookup, no page fetch and no write, and the table is
\* as the run found it
NoWorkDone == store = store0 /\ tally = <<>> /\ cur = Fresh /\ fetched = <<>>

ZeroCount(r) ==
    \/ r.kind = "empty" /\ r.count = 0
    \/ r.kind = "counts" /\ r.totalProcessed = 0 /\ r.newPosts = 0
       /\ r.updatedPosts = 0

\* C13 as claimed: a run whose feed has no valid item ends, not in the
\* failed state, with a zero-count result and without a lookup, a page
\* fetch or a write, the table unchanged.
C13_EmptyFeedZeroCount ==
    EndedOnEmptyFeed => (ZeroCount(summary) /\ NoWorkDone)

\* C13 without the result: a feed that has blocks but no valid item ends
\* the run in the done state with no work done.
C13_EmptyFeedNoWork ==
    /\ EndedOnEmptyFeed => NoWorkDone
    /\ (env.feedKind = "ok" /\ pc # "feed" /\ ValidPositions = {})
       => EndedOnEmptyFeed

Urls(st) == {r.url : r \in st}

\* C14: no step of any run removes a url from the table, and the row of
\* a url keeps its id.
C14_NeverDeletes ==
    [][/\ Urls(store) \subseteq Urls(store')
       /\ \A r \in store : \E q \in store' : q.id = r.id /\ q.url = r.url]_vars

\* C14, its case: a later run issued an update for a stored url, the
\* update failed, and the url is still stored.
C14_Witness ==
    /\ runs = 2 /\ cur.write = "update" /\ cur.outcome = "errored"
    /\ cur.item.link \in Urls(store)

\* C15: a run started without its key is in the failed state at once and
\* stays there: it fetched no feed and no page and issued no storage call.
C15_NoKeyNoWork ==
    ~env.hasKey
    => /\ pc = "failed"
       /\ env.feedKind = "none" /\ feed = <<>> /\ rssItems = <<>>
       /\ NoWorkDone

\* C15, its case: a run without the key, started on a table that holds
\* rows.
C15_Witness == pc = "failed" /\ ~env.hasKey /\ store # {}

(* ===================== the text functions on their own ================== *)
RECURSIVE Flatten(_)
Flatten(q) == IF q = <<>> THEN <<>> ELSE Head(q) \o Flatten(Tail(q))

\* pieces of markup and of entities
Tokens ==
    { <<"a">>, <<" ">>, <<"<">>, <<">">>, <<"&">>, <<"a", "m", "p", ";">>,
      <<"l", "t", ";">>, <<"g", "t", ";">>, <<"n", "b", "s", "p", ";">> }

\* "<p>A &amp; B</p>" and "no tags"
TxtMarkedUp ==
    <<"<", "p", ">", "A", " ", "&", "a", "m", "p", ";", " ", "B", "<", "/", "p", ">">>
TxtAandB == <<"A", " ", "&", " ", "B">>
TxtNoTags == <<"n", "o", " ", "t", "a", "g", "s">>

CleanInputs ==
    {Flatten(q) : q \in SeqsUpTo(Tokens, MaxTokens)} \cup {TxtMarkedUp, TxtNoTags}

CleanInit ==
    /\ AtRest
    /\ fn = "clean"
    /\ arg \in [impl : Impls, text : CleanInputs]
    /\ val = <<>>

\* cleanHTMLTags(text), then cleanHTMLTags of what it returned
CleanApply ==
    /\ fn = "clean"
    /\ Len(val) < 2
    /\ val' = Append(val, Clean(arg.impl, IF val = <<>> THEN arg.text ELSE val[Len(val)]))
    /\ UNCHANGED <<prog, hist, fn, arg, chat>>

CleanNext == CleanApply

CleanSpec == CleanInit /\ [][CleanNext]_vars

\* a text without a tag and without an entity
Plain(x) ==
    /\ TagStarts(x) = {}
    /\ \A k \in DOMAIN EntitiesScript : Occurrences(x, EntitiesScript[k][1]) = {}

\* the parts of C16 about plain text and about the example
CleanOfPlainAndExample ==
    /\ (Len(val) >= 1 /\ Plain(arg.text)) => val[1] = Trim(arg.text)
    /\ (Len(val) >= 1 /\ arg.text = TxtMarkedUp) => val[1] = TxtAandB
    /\ (Len(val) >= 1 /\ arg.text = TxtNoTags) => val[1] = TxtNoTags

\* C16 as claimed: for every input the sanitizer applied to its own output
\* returns that output; plain text comes back trimmed, and the example
\* gives "A & B".
C16_Idempotent ==
    /\ Len(val) = 2 => val[2] = val[1]
    /\ CleanOfPlainAndExample

\* C16 amended: the sanitizer returns its own output unchanged when that
\* output holds no tag and no entity; plain text comes back trimmed, and
\* the example gives "A & B".
C16_IdempotentOnPlainOutput ==
    /\ (Len(val) = 2 /\ Plain(val[1])) => val[2] = val[1]
    /\ CleanOfPlainAndExample

\* C16, its case: the script's sanitizer applied twice to the example.
C16_Witness ==
    /\ fn = "clean" /\ arg.impl = "script" /\ arg.text = TxtMarkedUp
    /\ Len(val) = 2 /\ val[2] = TxtAandB

(* --------------------------- extractXMLContent -------------------------- *)
Uppers == <<"A", "B", "C", "D", "E", "F", "G", "H", "I", "J", "K", "L", "M",
            "N", "O", "P", "Q", "R", "S", "T", "U", "V", "W", "X", "Y", "Z">>
Lowers == <<"a", "b", "c", "d", "e", "f", "g", "h", "i", "j", "k", "l", "m",
            "n", "o", "p", "q", "r", "s", "t", "u", "v", "w", "x", "y", "z">>

\* the 'i' flag: letters are compared without their case
Fold(c) ==
    IF \E k \in DOMAIN Uppers : Uppers[k] = c
    THEN Lowers[CHOOSE k \in DOMAIN Uppers : Uppers[k] = c]
    ELSE c

\* pat is matched, letter by letter, by the characters of s from i on
MatchesAt(s, i, pat) ==
    /\ i + Len(pat) - 1 <= Len(s)
    /\ \A k \in DOMAIN pat : Fold(s[i + k - 1]) = Fold(pat[k])

\* <tag and </tag>
OpenOf(tag) == <<"<">> \o tag
CloseOf(tag) == <<"<", "/">> \o tag \o <<">">>

\* [^>]*> after <tag at i: the positions of the ">" that ends the opening
OpenEnds(s, i, tag) ==
    {j \in (i + Len(OpenOf(tag)))..Len(s) :
        s[j] = ">" /\ \A k \in (i + Len(OpenOf(tag)))..(j - 1) : s[k] # ">"}

\* ([\s\S]*?)<\/tag>: the first </tag> after the opening that ends at j
CloseStarts(s, j, tag) ==
    {c \in (j + 1)..Len(s) :
        MatchesAt(s, c, CloseOf(tag))
        /\ \A k \in (j + 1)..(c - 1) : ~MatchesAt(s, k, CloseOf(tag))}

\* the positions where the whole pattern matches
MatchStarts(s, tag) ==
    {i \in DOMAIN s :
        /\ MatchesAt(s, i, OpenOf(tag))
        /\ \E j \in OpenEnds(s, i, tag) : CloseStarts(s, j, tag) # {}}

\* match[1] of the match that starts at i
Captured(s, i, tag) ==
    LET j == CHOOSE x \in OpenEnds(s, i, tag) : TRUE
        c == CHOOSE x \in CloseStarts(s, j, tag) : TRUE
    IN  SubSeq(s, j + 1, c - 1)

\* xml.match(regex): the leftmost match; match[1].trim() or ''
extractXMLContent(xml, tag) ==
    IF MatchStarts(xml, tag) = {} THEN <<>>
    ELSE Trim(Captured(xml, MinOf(MatchStarts(xml, tag)), tag))

\* fragments: whole elements, lone tags and text
Fragments ==
    { <<"<", "t", ">", "b", "<", "/", "t", ">">>,
      <<"<", "t", "x", ">", "a", "<", "/", "t", "x", ">">>,
      <<"<", "T", " ", "k", ">", " ", "c", " ", "<", "/", "t", ">">>,
      <<"<", "c", ":", "e", ">", "z", "<", "/", "c", ":", "e", ">">>,
      <<"<", "x", ">", "<", "/", "x", ">">>,
      <<"<", "t", ">">>, <<"<", "/", "t", ">">>, <<"h">>, <<" ">> }

ExtractInputs == {Flatten(q) : q \in SeqsUpTo(Fragments, MaxTokens)}

TagNames == {<<"t">>, <<"c", ":", "e">>}

ExtractInit ==
    /\ AtRest
    /\ fn = "extract"
    /\ arg \in [impl : Impls, text : ExtractInputs, tag : TagNames]
    /\ val = <<>>

\* extractXMLContent(text, tag)
ExtractApply ==
    /\ fn = "extract"
    /\ val = <<>>
    /\ val' = <<extractXMLContent(arg.text, arg.tag)>>
    /\ UNCHANGED <<prog, hist, fn, arg, chat>>

ExtractNext == ExtractApply

ExtractSpec == ExtractInit /\ [][ExtractNext]_vars

\* an opening tag at i whose name is tag and nothing more: the name is
\* followed by ">" or by a blank
NamedExactly(s, i, tag) ==
    /\ MatchesAt(s, i, OpenOf(tag))
    /\ i + Len(OpenOf(tag)) <= Len(s)
    /\ s[i + Len(OpenOf(tag))] \in {">", " "}

\* the first element of s named tag: where it opens
ElementStarts(s, tag) ==
    {i \in DOMAIN s :
        /\ NamedExactly(s, i, tag)
        /\ \E j \in OpenEnds(s, i, tag) : CloseStarts(s, j, tag) # {}}

\* what C17 says extract returns
InnerOfFirstElement(s, tag) ==
    IF ElementStarts(s, tag) = {} THEN <<>>
    ELSE Trim(Captured(s, MinOf(ElementStarts(s, tag)), tag))

\* some opening tag of s has a name that only begins with tag
LongerNamed(s, tag) ==
    \E i \in DOMAIN s : MatchesAt(s, i, OpenOf(tag)) /\ ~NamedExactly(s, i, tag)

\* C17 as claimed: extract returns the trimmed inner text of the first
\* element named exactly tag, whatever the case and the attributes of its
\* opening tag, and the empty text when there is no such element.
C17_InnerOfExactTag ==
    (fn = "extract" /\ Len(val) = 1)
    => val[1] = InnerOfFirstElement(arg.text, arg.tag)

\* C17 for fragments in which no tag name only begins with tag.
C17_InnerWhenNoLongerName ==
    (fn = "extract" /\ Len(val) = 1 /\ ~LongerNamed(arg.text, arg.tag))
    => val[1] = InnerOfFirstElement(arg.text, arg.tag)

\* C18: the operations of a run are issued for one item at a time, in the
\* order of the feed: whatever is awaited belongs to the item at index,
\* every earlier item has been looked up once and has its outcome, and
\* nothing has been issued for a later item.
C18_OneItemAtATime ==
    /\ \A k \in DOMAIN tally :
         /\ k > index => tally[k] = [lookups |-> 0, settled |-> 0]
         /\ k < index => tally[k] = [lookups |-> 1, settled |-> 1]
    /\ pc \in {"page", "write"}
       => /\ cur.item = rssItems[index] /\ cur.outcome = "none"
          /\ tally[index] = [lookups |-> 1, settled |-> 0]
    /\ pc = "delay"
       => /\ cur.item = rssItems[index] /\ cur.outcome # "none"
          /\ tally[index] = [lookups |-> 1, settled |-> 1]
    /\ (pc = "lookup" /\ index > 1)
       => /\ cur.item = rssItems[index - 1] /\ cur.outcome # "none"
          /\ tally[index] = [lookups |-> 0, settled |-> 0]

\* C18, its case: the lookup of the second item is about to be issued, the
\* first item, a different one, has its outcome.
C18_Witness ==
    /\ pc = "lookup" /\ index = 2
    /\ rssItems[1].link # rssItems[2].link
    /\ cur.item = rssItems[1] /\ cur.outcome \in {"inserted", "errored"}

\* the rows this run has inserted or updated so far: every write stamps
\* updated_at with a new clock value, so they are the rows the table did
\* not hold when the run started
WrittenThisRun == store \ store0

\* C19: once a run has inserted or updated a record, no later step of the
\* same run changes or removes it, whatever the later items are and
\* however they end.
C19_WrittenIsFinal ==
    [][store0' = store0 => WrittenThisRun \subseteq store']_vars

\* C19, as far as the code goes: a record written by the run is left as it
\* is by every later item that carries another link, failed or not.
C19_FinalUnlessSameLink ==
    [][(store0' = store0 /\ pc = "write")
        => {r \in WrittenThisRun : r.url # rssItems[index].link} \subseteq store']_vars

\* the first item of a run is the item the run before ended on, unchanged,
\* and that run stored it; this step overwrites its record
OverwritesUnchanged ==
    /\ pc = "write" /\ index = 1 /\ SamePass
    /\ last.outcome \in {"inserted", "updated"}
    /\ cur'.outcome = "updated"

NotShortened ==
    \A r \in store, w \in store' :
        (r.url = rssItems[index].link /\ w.url = r.url)
            => Len(w.content) >= Len(r.content)

\* C20: over successive runs on an unchanged feed item, with fullSync set
\* or not in any order, a run that overwrites the stored content never
\* stores strictly shorter content.
C20_NeverShorter == [][OverwritesUnchanged => NotShortened]_vars

\* C20, as far as the code goes: between two runs that both leave the page
\* alone the overwritten content keeps its length.
C20_NeverShorterWithoutPages ==
    [][(OverwritesUnchanged /\ ~fullSync /\ ~last.fullSync) => NotShortened]_vars

(* ----------------------------- the page fetcher ------------------------- *)
\* what a content selector can capture in a page
PageCaptures == {NoMatch, Match(TxtPQMarkup), Match(TxtLongX), Match(TxtLongEMarkup)}

\* the outcomes of fetch(postUrl): a failure, a non-success status, or a
\* page with any capture for each of the four selectors
PageInputs ==
    { [kind |-> "throw", sel |-> <<NoMatch, NoMatch, NoMatch, NoMatch>>],
      [kind |-> "notok", sel |-> <<NoMatch, NoMatch, NoMatch, NoMatch>>] }
    \cup {[kind |-> "ok", sel |-> s] : s \in [1..4 -> PageCaptures]}

PageInit ==
    /\ AtRest
    /\ fn = "page"
    /\ arg \in [impl : Impls, resp : PageInputs]
    /\ val = <<>>

\* getFullPostContent(postUrl), the fetch answering arg.resp
PageApply ==
    /\ fn = "page"
    /\ val = <<>>
    /\ val' = <<FetchBody(arg.impl, arg.resp).text>>
    /\ UNCHANGED <<prog, hist, fn, arg, chat>>

PageNext == PageApply

PageSpec == PageInit /\ [][PageNext]_vars

\* the selectors, in priority order, whose sanitized capture is longer
\* than 100 characters
SubstantialSelectors(i, resp) ==
    {k \in 1..4 : /\ resp.kind = "ok" /\ resp.sel[k].matched
                  /\ Len(Clean(i, resp.sel[k].inner)) > MinSubstantial}

FirstSubstantialWins ==
    val = <<IF SubstantialSelectors(arg.impl, arg.resp) = {} THEN <<>>
            ELSE Clean(arg.impl,
                       arg.resp.sel[MinOf(SubstantialSelectors(arg.impl, arg.resp))].inner)>>

\* C21: the page fetcher returns the sanitized capture of the first of its
\* four selectors (markup, post-content, article, body) whose sanitized
\* capture is longer than 100 characters, and the empty string when there
\* is none; its result is empty or longer than 100 characters.
C21_FirstSubstantialWins ==
    val # <<>> => /\ FirstSubstantialWins
                  /\ (val[1] = <<>> \/ Len(val[1]) > MinSubstantial)

\* C21 for the standalone script alone.
C21_ScriptFirstSubstantialWins ==
    (val # <<>> /\ arg.impl = "script")
        => /\ FirstSubstantialWins
           /\ (val[1] = <<>> \/ Len(val[1]) > MinSubstantial)

(* ------------------------------- the parser ----------------------------- *)
TagTitle == <<"t", "i", "t", "l", "e">>

Element(tag, inner) == <<"<">> \o tag \o <<">">> \o inner \o <<"<", "/">> \o tag \o <<">">>

\* <![CDATA[A]]>, the way a feed wraps its titles
TxtCData == <<"<", "!", "[", "C", "D", "A", "T", "A", "[", "A", "]", "]", ">">>

\* the title part of an <item> block: a plain title, a title of markup
\* alone, a CDATA title, a blank title, no title element
TitleParts ==
    { Element(TagTitle, <<"A">>), Element(TagTitle, TxtEmptyMarkup),
      Element(TagTitle, TxtCData), Element(TagTitle, <<" ">>), <<>> }

\* <item> blocks whose title is what extractXMLContent finds in the part
ParseBlocks ==
    {Block(extractXMLContent(t, TagTitle), l, "d1", TxtAB, <<>>, "") :
        t \in TitleParts, l \in {"u1", ""}}

ParseInit ==
    /\ AtRest
    /\ fn = "parse"
    /\ arg \in [impl : Impls, blocks : SeqsUpTo(ParseBlocks, MaxBlocks)]
    /\ val = <<>>

\* parseRSSFeed(rssUrl), the feed holding arg.blocks
ParseApply ==
    /\ fn = "parse"
    /\ val = <<>>
    /\ val' = <<parseRSSFeed(arg.impl, arg.blocks)>>
    /\ UNCHANGED <<prog, hist, fn, arg, chat>>

ParseNext == ParseApply

ParseSpec == ParseInit /\ [][ParseNext]_vars

\* C22: every item the parser returns has a title that is not empty after
\* sanitization, also when the title element holds markup alone or a CDATA
\* wrapper.
C22_TitleNonEmpty ==
    val # <<>> => \A k \in DOMAIN val[1] : val[1][k].title # <<>>

\* C22, as far as the code goes: every item the parser returns comes from a
\* block whose title text, before sanitization, is not empty, and carries
\* that text sanitized.
C22_RawTitleNonEmpty ==
    val # <<>>
    => \A k \in DOMAIN val[1] :
          /\ arg.blocks[val[1][k].pos].title # <<>>
          /\ val[1][k].title = Clean(arg.impl, arg.blocks[val[1][k].pos].title)

(* --------------------- the sanitizer and its entities ------------------- *)
\* "&amp;lt;", a "<" escaped twice, and "&lt;", the same escaped once
TxtTwiceEscaped == <<"&", "a", "m", "p", ";", "l", "t", ";">>
TxtOnceEscaped == <<"&", "l", "t", ";">>

\* C23: for every input the result of the sanitizer holds no <...> span,
\* and a text escaped twice is decoded by one level only: "&amp;lt;" gives
\* "&lt;".
C23_NoMarkupNoDoubleDecoding ==
    Len(val) >= 1
    => /\ TagStarts(val[1]) = {}
       /\ arg.text = TxtTwiceEscaped => val[1] = TxtOnceEscaped

\* C23, as far as the code goes: the result holds no <...> span when the
\* input holds no "&", that is when nothing is there to decode.
C23_NoMarkupWithoutEntities ==
    (Len(val) >= 1 /\ \A k \in DOMAIN arg.text : arg.text[k] # "&")
        => TagStarts(val[1]) = {}

(* ------------------------------- the summary ---------------------------- *)
\* descriptions of a few characters, and of about the summary limit
Descriptions ==
    {Pad(c, n) : c \in {"a", "."},
                 n \in (0..MaxSpread)
                       \cup ((SummaryLimit - MaxSpread)..(SummaryLimit + MaxSpread))}

SummaryInit ==
    /\ AtRest
    /\ fn = "summary"
    /\ arg \in [impl : Impls, description : Descriptions]
    /\ val = <<>>

\* postData.summary for an item with the description arg.description
SummaryApply ==
    /\ fn = "summary"
    /\ val = <<>>
    /\ val' = <<PostData(arg.impl, [NoItem EXCEPT !.description = arg.description],
                         <<>>, 0).summary>>
    /\ UNCHANGED <<prog, hist, fn, arg, chat>>

SummaryNext == SummaryApply

SummarySpec == SummaryInit /\ [][SummaryNext]_vars

Marker == <<".", ".", ".">>

\* C24: the summary is the description when that has at most 500
\* characters, and otherwise its first 500 characters followed by the
\* marker; it is never longer than 500 characters plus the marker, and it
\* differs from the description exactly when the description was cut.
C24_SummaryTruncation ==
    val # <<>>
    => /\ Len(arg.description) <= SummaryLimit => val[1] = arg.description
       /\ Len(arg.description) > SummaryLimit
          => val[1] = [k \in 1..(SummaryLimit + Len(Marker)) |->
                          IF k <= SummaryLimit THEN arg.description[k]
                          ELSE Marker[k - SummaryLimit]]
       /\ Len(val[1]) <= SummaryLimit + Len(Marker)
       /\ (Len(val[1]) > SummaryLimit) <=> (Len(arg.description) > SummaryLimit)

\* C24, its case: a description of 501 characters, cut after the 500th
\* and followed by the marker.
C24_Witness ==
    /\ fn = "summary" /\ val # <<>>
    /\ Len(arg.description) = SummaryLimit + 1
    /\ Len(val[1]) = SummaryLimit + 3
    /\ val[1][SummaryLimit] = "a" /\ val[1][SummaryLimit + 1] = "."

(* ----------------------- the two pipelines compared --------------------- *)
\* one iteration of the loop of pipeline i as a function of what it reads:
\* the flag, the table, the <item> block, and the answers of the lookup,
\* of the page fetch and of the write
PerItem(i, fs, st, block, lookupFails, resp, dbFails, stamp) ==
    LET item == Item(i, block, 0)
        ex == DbSingle(st, i, item.link, lookupFails)
        fetches == (i = "script" /\ fs) \/ (i = "hosted" /\ HostedFetches(fs, ex))
        body == IF fetches THEN FetchBody(i, resp).text ELSE <<>>
        content == FullContent(i, item, fs, ex, body)
    IN  IF ~DateParses(item.pubDate)
        THEN [write |-> "none", content |-> content, store |-> st]
        ELSE LET res == Reconcile(i, fs, st, ex, PostData(i, item, content, stamp), dbFails)
             IN  [write |-> res.op, content |-> content, store |-> res.store]

\* C25: from the same table, with the same item, the same flag and the same
\* answers of the lookup, the page fetch and the write, the script and the
\* hosted function take the same decision (insert, update, skip), compute
\* the same content and leave the same table.
C25_SamePipelines ==
    pc = "lookup"
    => \A lookupFails \in BOOLEAN, resp \in PageResponses, dbFails \in BOOLEAN :
          PerItem("script", fullSync, store, feed[CurItem.pos], lookupFails, resp,
                  dbFails, now + 1)
          = PerItem("hosted", fullSync, store, feed[CurItem.pos], lookupFails, resp,
                    dbFails, now + 1)

\* C25, as far as the code goes: the two pipelines insert in the same
\* cases, and a url is in the table after the one exactly when it is after
\* the other.
C25_SameInserts ==
    pc = "lookup"
    => \A lookupFails \in BOOLEAN, resp \in PageResponses, dbFails \in BOOLEAN :
          LET s == PerItem("script", fullSync, store, feed[CurItem.pos], lookupFails,
                           resp, dbFails, now + 1)
              h == PerItem("hosted", fullSync, store, feed[CurItem.pos], lookupFails,
                           resp, dbFails, now + 1)
          IN  /\ (s.write = "insert") <=> (h.write = "insert")
              /\ Urls(s.store) = Urls(h.store)

(* --------------------------- writes and fetches ------------------------- *)
\* C26: processing an item issues at most one write, an insert or an
\* update: no step but the write step of an item changes the table, and
\* that step adds one row for the item's link, or rewrites the one row the
\* lookup for the item's link returned, whose url stays that link, or
\* leaves the table alone.
C26_OneWritePerItem ==
    [][/\ pc # "write" => store' = store
       /\ pc = "write"
          => /\ cur'.write \in {"none", "insert", "update"}
             /\ Cardinality(store' \ store) <= 1
             /\ cur'.write = "none" => store' = store
             /\ cur'.write = "insert"
                => /\ ~existing.found /\ store \subseteq store'
                   /\ \A w \in store' \ store : w.url = rssItems[index].link
             /\ cur'.write = "update"
                => /\ existing.found /\ existing.url = rssItems[index].link
                   /\ \A w \in store' \ store :
                         /\ w.id = existing.id /\ w.url = rssItems[index].link
                         /\ store \ store' = {r \in store : r.id = existing.id}
                         /\ \A r \in store \ store' : r.url = w.url]_vars

\* C26, its case: an item whose lookup returned a record has updated it;
\* the record is there under the item's link, with the new time stamp.
C26_Witness ==
    /\ cur.lookup = "found" /\ cur.write = "update" /\ cur.outcome = "updated"
    /\ \E r \in store : r.url = cur.item.link /\ r.updated_at = now

\* C27: a page is fetched only in a run with fullSync set, for the item in
\* hand, right after its lookup and once; a run without fullSync fetches
\* no page.
C27_PageFetchOnlyInFullSync ==
    [][/\ pc = "page"
          => /\ fullSync /\ cur.page = "none" /\ cur.item = rssItems[index]
             /\ tally[index] = [lookups |-> 1, settled |-> 0]
             /\ pc' # "page"
       /\ pc' = "page" => (pc = "lookup" /\ index' = index)
       /\ (cur'.page # cur.page /\ cur'.page # "none") => pc = "page"
       /\ (fetched' # fetched /\ fetched' # <<>>) => pc = "page"
       /\ ~fullSync' => (cur'.page = "none" /\ fetched' = <<>> /\ pc' # "page")]_vars

\* C27, its case: in a full sync the page of the second item has been
\* fetched and has given its text.
C27_Witness ==
    /\ fullSync /\ pc = "write" /\ index = 2
    /\ cur.page = "text" /\ fetched # <<>>

\* the write step of an item whose pubDate new Date() cannot parse
DateThrows == pc = "write" /\ ~DateParses(rssItems[index].pubDate)

\* C28: an item that passed the filter but whose pubDate cannot be parsed
\* is never written: its step issues no insert and no update and leaves
\* the table and the two counts alone, the script counts it once as
\* errored, and the loop goes on with the next item, or ends the run
\* normally after the last.
C28_BadDateNeverWritten ==
    [][DateThrows
        => /\ store' = store
           /\ cur'.write = "none" /\ cur'.outcome = "errored"
           /\ newCount' = newCount /\ updatedCount' = updatedCount
           /\ impl = "script" => errorCount' = errorCount + 1
           /\ tally'[index] = [lookups |-> 1, settled |-> 1]
           /\ IF index < Len(rssItems)
              THEN pc' = "lookup" /\ index' = index + 1
              ELSE pc' = "done"]_vars

\* C28, its case: the first of two items had a pubDate that cannot be
\* parsed; the script counted it and is at the lookup of the second, the
\* table as it was.
C28_Witness ==
    /\ impl = "script" /\ pc = "lookup" /\ index = 2
    /\ cur.cause = "date" /\ cur.outcome = "errored" /\ cur.write = "none"
    /\ errorCount = 1 /\ store = store0

(* ========================== the chat interface ========================== *)
\* calls of handleSendMessage over the life of the component
MaxSends == 2

TxtQ == <<"q">>
TxtBlank == <<" ">>
TxtValue == <<"V", "a", "l", "u", "e">>
TxtAnswer == <<"a", "n", "s">>
TxtOld == <<"o", "l", "d">>

\* the fixed answers of the component
Apology == <<"I'm sorry, I couldn't process that request. ...">>
DemoCompany == <<"I'd love to learn more about your company first! ...">>
DemoValues == <<"Satvik's core values center around: ...">>
DemoFreeTime == <<"When Satvik isn't working, you'll find him: ...">>
DemoDefault == <<"That's a great question! ...">>

Chars(str) ==
    CASE str = "company" -> <<"c", "o", "m", "p", "a", "n", "y">>
      [] str = "value" -> <<"v", "a", "l", "u", "e">>
      [] str = "values" -> <<"v", "a", "l", "u", "e", "s">>
      [] str = "not working" -> <<"n", "o", "t", " ", "w", "o", "r", "k", "i", "n", "g">>
      [] str = "hobbies" -> <<"h", "o", "b", "b", "i", "e", "s">>
      [] str = "free time" -> <<"f", "r", "e", "e", " ", "t", "i", "m", "e">>

\* question.toLowerCase().includes(str)
Includes(question, str) ==
    Occurrences([k \in DOMAIN question |-> Fold(question[k])], Chars(str)) # {}

getDemoResponse(question) ==
    IF Includes(question, "company") \/ Includes(question, "value") THEN DemoCompany
    ELSE IF Includes(question, "values") THEN DemoValues
    ELSE IF Includes(question, "not working") \/ Includes(question, "hobbies")
            \/ Includes(question, "free time") THEN DemoFreeTime
    ELSE DemoDefault

\* what supabase.functions.invoke gives: a rejected promise, a response
\* with an error, data without an answer, data with an answer
InvokeOutcomes ==
    { [kind |-> "throw", answer |-> <<>>], [kind |-> "error", answer |-> <<>>],
      [kind |-> "data", answer |-> <<>>], [kind |-> "data", answer |-> TxtAnswer] }

\* the invoke rejected, or response.error made the handler throw
InvokeFailed(o) == o.kind \in {"throw", "error"}

\* response.data?.answer || "I'm sorry, ..."
AiResponse(o) == IF o.answer # <<>> THEN o.answer ELSE Apology

\* the props of the component and the session: a signed-in user or none,
\* an initial message or none
ChatProps == [user : BOOLEAN, initialMessage : {<<>>, TxtBlank, TxtQ}]

\* what the user has in chat_messages when the component is mounted
Histories == {<<>>, <<[content |-> TxtOld, isUser |-> TRUE]>>}

\* what can be typed into the input
Typed == {TxtValue}

NoSend == [content |-> <<>>, pc |-> "none", users |-> 0, replies |-> 0,
           reply |-> <<>>, wasLoading |-> FALSE]

\* message ids: Date.now() for a message of the component, the row id for
\* a loaded one
LocalId(n) == <<"local", n>>
RowId(k) == <<"row", k>>

ChatInit ==
    /\ AtRest
    /\ fn = "chat"
    /\ arg \in ChatProps
    /\ val = <<>>

\* handleSendMessage(m) up to its first await
Begin(m) ==
    IF Trim(m) = <<>>
    THEN /\ sends' = Append(sends, [NoSend EXCEPT !.content = m, !.pc = "blank",
                                                  !.wasLoading = isLoading])
         /\ UNCHANGED <<messages, input, isLoading, nextId>>
    ELSE /\ messages' = Append(messages, [id |-> LocalId(nextId + 1), content |-> m,
                                          isUser |-> TRUE])
         /\ nextId' = nextId + 1
         /\ input' = <<>>
         /\ isLoading' = TRUE
         /\ sends' = Append(sends, [NoSend EXCEPT !.content = m, !.pc = "saveUser",
                                                  !.users = 1,
                                                  !.wasLoading = isLoading])

\* the first render and its effects: loadChatHistory() if there is a user,
\* handleSendMessage(initialMessage) if there is an initial message
Mount ==
    /\ fn = "chat" /\ ~mounted
    /\ mounted' = TRUE
    /\ \E h \in Histories : chatRows' = IF arg.user THEN h ELSE <<>>
    /\ load' = IF arg.user THEN [pc |-> "issued", data |-> <<>>] ELSE NoLoad
    /\ IF arg.initialMessage # <<>>
       THEN Begin(arg.initialMessage)
       ELSE UNCHANGED <<messages, input, isLoading, sends, nextId>>
    /\ UNCHANGED <<prog, hist, calls>>

\* the select of loadChatHistory is answered: the rows, or an error
LoadAnswer(fails) ==
    /\ load.pc = "issued"
    /\ load' = IF fails THEN [pc |-> "error", data |-> <<>>]
               ELSE [pc |-> "answered", data |-> chatRows]
    /\ UNCHANGED <<prog, hist, calls, mounted, messages, input, isLoading,
                   chatRows, sends, nextId>>

\* loadChatHistory after its await: setMessages(loadedMessages), or the
\* error is logged
LoadApply ==
    /\ load.pc \in {"answered", "error"}
    /\ messages' = IF load.pc = "error" THEN messages
                   ELSE [k \in DOMAIN load.data |->
                            [id |-> RowId(k), content |-> load.data[k].content,
                             isUser |-> load.data[k].isUser]]
    /\ load' = [load EXCEPT !.pc = "done"]
    /\ UNCHANGED <<prog, hist, calls, mounted, input, isLoading, chatRows, sends,
                   nextId>>

\* onChange of the input, which is disabled while isLoading
Type(t) ==
    /\ mounted /\ ~isLoading /\ input # t
    /\ input' = t
    /\ UNCHANGED <<prog, hist, calls, mounted, messages, isLoading, chatRows, load,
                   sends, nextId>>

\* handleSubmit: the button is disabled while isLoading or on a blank input
Submit ==
    /\ mounted /\ ~isLoading /\ Trim(input) # <<>>
    /\ Len(sends) < MaxSends
    /\ Begin(input)
    /\ UNCHANGED <<prog, hist, calls, mounted, chatRows, load>>

\* saveMessageToDatabase(content, isUser) returns: a row is there if there
\* is a user and the insert did not fail
Saved(content, isUser, fails) ==
    IF arg.user /\ ~fails
    THEN Append(chatRows, [content |-> content, isUser |-> isUser])
    ELSE chatRows

\* await saveMessageToDatabase(messageContent, true)
SaveUser(k, fails) ==
    /\ sends[k].pc = "saveUser"
    /\ chatRows' = Saved(sends[k].content, TRUE, fails)
    /\ sends' = [sends EXCEPT ![k].pc = "invoke"]
    /\ UNCHANGED <<prog, hist, calls, mounted, messages, input, isLoading, load,
                   nextId>>

\* variant: the catch of the handler appends nothing
InvokeNoFallback(k, o) ==
    /\ sends[k].pc = "invoke"
    /\ IF InvokeFailed(o)
       THEN /\ sends' = [sends EXCEPT ![k].pc = "saveFallback"]
            /\ UNCHANGED <<messages, nextId>>
       ELSE /\ messages' = Append(messages, [id |-> LocalId(nextId + 1),
                                             content |-> AiResponse(o),
                                             isUser |-> FALSE])
            /\ nextId' = nextId + 1
            /\ sends' = [sends EXCEPT ![k].pc = "saveAi", ![k].replies = @ + 1,
                                      ![k].reply = AiResponse(o)]
    /\ UNCHANGED <<prog, hist, calls, mounted, input, isLoading, chatRows, load>>

\* await supabase.functions.invoke(...), then the answer or, in the catch,
\* the demo response is appended
Invoke(k, o) ==
    /\ sends[k].pc = "invoke"
    /\ \E r \in {IF InvokeFailed(o) THEN getDemoResponse(sends[k].content)
                 ELSE AiResponse(o)} :
         /\ messages' = Append(messages, [id |-> LocalId(nextId + 1), content |-> r,
                                          isUser |-> FALSE])
         /\ sends' = [sends EXCEPT ![k].pc = IF InvokeFailed(o) THEN "saveFallback"
                                             ELSE "saveAi",
                                   ![k].replies = @ + 1, ![k].reply = r]
    /\ nextId' = nextId + 1
    /\ UNCHANGED <<prog, hist, calls, mounted, input, isLoading, chatRows, load>>

\* await saveMessageToDatabase(reply, false), the toast after a fallback,
\* and the finally: setIsLoading(false)
SaveReply(k, fails) ==
    /\ sends[k].pc \in {"saveAi", "saveFallback"}
    /\ chatRows' = Saved(sends[k].reply, FALSE, fails)
    /\ isLoading' = FALSE
    /\ sends' = [sends EXCEPT ![k].pc = "done"]
    /\ UNCHANGED <<prog, hist, calls, mounted, messages, input, load, nextId>>

\* a call awaited by handleSendMessage returns
SendStep ==
    \E k \in DOMAIN sends :
        \/ \E fails \in BOOLEAN : SaveUser(k, fails)
        \/ \E o \in InvokeOutcomes : Invoke(k, o)
        \/ \E fails \in BOOLEAN : SaveReply(k, fails)

ChatNext ==
    \/ Mount
    \/ \E fails \in BOOLEAN : LoadAnswer(fails)
    \/ LoadApply
    \/ \E t \in Typed : Type(t)
    \/ Submit
    \/ SendStep

ChatSpec == ChatInit /\ [][ChatNext]_vars

\* every call the handler awaits returns
ChatFairSpec == ChatSpec /\ WF_vars(SendStep)

(* ====================== properties of the chat interface ================ *)
InFlight(k) == k \in DOMAIN sends /\ sends[k].pc \in {"saveUser", "invoke", "saveAi", "saveFallback"}

Ended(k) == k \in DOMAIN sends /\ sends[k].pc = "done"

\* a call of handleSendMessage was made in this step
SendBegun == Len(sends') = Len(sends) + 1

\* the messages of the transcript, as contents and sides
Shown(ms) == [k \in DOMAIN ms |-> [content |-> ms[k].content, isUser |-> ms[k].isUser]]

\* C29: a send of a non-blank message appends one user message and then
\* one assistant message, the answer of the endpoint or the demo response
\* when the call failed, and sets isLoading to false at its end, which it
\* reaches; a send of a blank message appends nothing and leaves isLoading
\* as it is.
C29_SendAppendsPair ==
    /\ [](\A k \in DOMAIN sends :
            /\ sends[k].pc = "blank" => (sends[k].users = 0 /\ sends[k].replies = 0)
            /\ sends[k].pc \in {"saveUser", "invoke"}
               => (sends[k].users = 1 /\ sends[k].replies = 0)
            /\ sends[k].pc \in {"saveAi", "saveFallback", "done"}
               => (sends[k].users = 1 /\ sends[k].replies = 1)
            /\ sends[k].pc = "saveAi" => sends[k].reply \in {TxtAnswer, Apology}
            /\ sends[k].pc = "saveFallback"
               => sends[k].reply = getDemoResponse(sends[k].content)
            /\ InFlight(k) => isLoading)
    /\ [][/\ (SendBegun /\ sends'[Len(sends')].pc = "blank")
             => (messages' = messages /\ isLoading' = isLoading)
          /\ (SendBegun /\ sends'[Len(sends')].pc # "blank")
             => /\ Shown(messages') = Append(Shown(messages),
                                             [content |-> sends'[Len(sends')].content,
                                              isUser |-> TRUE])
                /\ isLoading'
          /\ \A k \in DOMAIN sends :
                /\ (sends[k].pc = "invoke" /\ sends'[k].pc # "invoke")
                   => Shown(messages') = Append(Shown(messages),
                                                [content |-> sends'[k].reply,
                                                 isUser |-> FALSE])
                /\ (sends[k].pc # sends'[k].pc /\ sends[k].pc # "invoke")
                   => messages' = messages
                /\ (sends[k].pc # "done" /\ sends'[k].pc = "done") => ~isLoading']_vars
    /\ \A k \in 1..MaxSends : InFlight(k) ~> Ended(k)
    /\ isLoading ~> ~isLoading

\* C29, its case: the endpoint call of a send failed; the send has ended,
\* the transcript ends with the question and the demo response, and
\* isLoading is false.
C29_Witness ==
    /\ ~isLoading /\ Len(messages) >= 2
    /\ \E k \in DOMAIN sends :
          /\ sends[k].pc = "done" /\ sends[k].content = TxtValue
          /\ sends[k].reply = DemoCompany
          /\ messages[Len(messages) - 1].isUser
          /\ messages[Len(messages) - 1].content = TxtValue
          /\ ~messages[Len(messages)].isUser
          /\ messages[Len(messages)].content = DemoCompany

\* a message the component appended itself is shown
ShownLocal(ms) == {Shown(ms)[k] : k \in {j \in DOMAIN ms : ms[j].id[1] = "local"}}

\* C30: a message that handleSendMessage appended to the transcript stays
\* in it, however the load of the chat history started on mount and the
\* send of the initial message interleave.
C30_AppendedStays ==
    [][\A m \in ShownLocal(messages) : \E k \in DOMAIN messages' : Shown(messages')[k] = m]_vars

\* C30, as far as the code goes: the transcript only grows, by appended
\* messages, in every step but the one in which loadChatHistory sets it to
\* the rows it loaded.
C30_OnlyLoadReplaces ==
    [][load' = load
        => /\ Len(messages') >= Len(messages)
           /\ SubSeq(messages', 1, Len(messages)) = messages]_vars

====
